---- MODULE Spec2Model ----
(***************************************************************************)
(* Model of the GitHub commit embed plugin (src/main.ts): the paste gate,  *)
(* the CommitEmbedModal decision surface with its asynchronous onOpen, and *)
(* the editor mutations performed by the three buttons.                    *)
(*                                                                         *)
(* JavaScript strings are sequences of one-character strings, so that the  *)
(* regular expressions, trim() and substring() work on characters.         *)
(***************************************************************************)
EXTENDS Integers, Sequences, FiniteSets, TLC

VARIABLES surfaces, editor, lastPaste

vars == <<surfaces, editor, lastPaste>>

\* Number of decision surfaces opened in one run of the model.
MaxSurfaces == 1

-----------------------------------------------------------------------------
(* Characters and strings                                                  *)

\* Upper-case letters of the model's alphabet and their lower-case forms.
LowerOf ==
  [c \in {"H", "T", "P", "S", "G", "C", "O", "M", "I", "A", "B", "F"} |->
     CASE c = "H" -> "h" [] c = "T" -> "t" [] c = "P" -> "p" [] c = "S" -> "s"
       [] c = "G" -> "g" [] c = "C" -> "c" [] c = "O" -> "o" [] c = "M" -> "m"
       [] c = "I" -> "i" [] c = "A" -> "a" [] c = "B" -> "b" [] c = "F" -> "f"]

Lower(c) == IF c \in DOMAIN LowerOf THEN LowerOf[c] ELSE c

\* White space removed by String.prototype.trim.
WhiteSpace == {" ", "\n", "\t"}

Digits == {"0", "1", "2", "3", "4", "5", "6", "7", "8", "9"}

\* The characters [a-f0-9] of the regular expressions.
HexChars == {"a", "b", "c", "d", "e", "f"} \cup Digits

RECURSIVE TrimStart(_)
TrimStart(s) ==
  IF s # <<>> /\ Head(s) \in WhiteSpace THEN TrimStart(Tail(s)) ELSE s

RECURSIVE TrimEnd(_)
TrimEnd(s) ==
  IF s # <<>> /\ s[Len(s)] \in WhiteSpace
    THEN TrimEnd(SubSeq(s, 1, Len(s) - 1))
    ELSE s

\* text.trim()
Trim(s) == TrimEnd(TrimStart(s))

\* s.substring(0, n)
Substring0(s, n) == SubSeq(s, 1, IF Len(s) < n THEN Len(s) ELSE n)

-----------------------------------------------------------------------------
(* Regular expressions.  A match state is a set of positions 1..Len(s)+1;  *)
(* each construct maps the positions where it may start to the positions   *)
(* where it may end.  Both expressions of the source carry the flag i, so  *)
(* every literal and every character class is compared case-insensitively. *)

\* The literal lit occurs in s at position p (flag i).
LitAt(s, p, lit) ==
  /\ p + Len(lit) - 1 <= Len(s)
  /\ \A k \in 1..Len(lit) : Lower(s[p + k - 1]) = Lower(lit[k])

MatchLit(s, P, lit) == {p + Len(lit) : p \in {q \in P : LitAt(s, q, lit)}}

\* x? for a literal x
MatchOpt(s, P, lit) == P \cup MatchLit(s, P, lit)

\* [a-f0-9] under flag i
IsHex(c) == Lower(c) \in HexChars

\* [^/]
NotSlash(c) == c # "/"

\* [^/]+
MatchPlusNotSlash(s, P) ==
  {e \in 2..(Len(s) + 1) :
     \E p \in P : p < e /\ \A k \in p..(e - 1) : NotSlash(s[k])}

\* [a-f0-9]+
MatchPlusHex(s, P) ==
  {e \in 2..(Len(s) + 1) :
     \E p \in P : p < e /\ \A k \in p..(e - 1) : IsHex(s[k])}

L_http == <<"h", "t", "t", "p">>
L_s == <<"s">>
L_schemeSep == <<":", "/", "/">>
L_host == <<"g", "i", "t", "h", "u", "b", ".", "c", "o", "m">>
L_slash == <<"/">>
L_commit == <<"/", "c", "o", "m", "m", "i", "t", "/">>

\* github\.com\/([^/]+)\/([^/]+)\/commit\/([a-f0-9]+) started at the
\* positions P: the positions where a match may end.
CommitPathEnds(s, P) ==
  LET p1 == MatchLit(s, MatchLit(s, P, L_host), L_slash)
      p2 == MatchPlusNotSlash(s, p1)
      p3 == MatchLit(s, p2, L_slash)
      p4 == MatchPlusNotSlash(s, p3)
      p5 == MatchLit(s, p4, L_commit)
  IN  MatchPlusHex(s, p5)

\* The gate without its anchors ^ and $.
isGitHubCommitUrl_Unanchored(text) ==
  \E i \in 1..(Len(text) + 1) : CommitPathEnds(text, {i}) # {}

\* /^https?:\/\/github\.com\/[^/]+\/[^/]+\/commit\/[a-f0-9]+$/i.test(text)
isGitHubCommitUrl(text) ==
  LET p1 == MatchLit(text, {1}, L_http)
      p2 == MatchOpt(text, p1, L_s)
      p3 == MatchLit(text, p2, L_schemeSep)
  IN  (Len(text) + 1) \in CommitPathEnds(text, p3)

SetMax(S) == CHOOSE x \in S : \A y \in S : y <= x
SetMin(S) == CHOOSE x \in S : \A y \in S : x <= y

NoMatch == [matched |-> FALSE, owner |-> <<>>, repo |-> <<>>, sha |-> <<>>]

\* url.match(/github\.com\/([^/]+)\/([^/]+)\/commit\/([a-f0-9]+)/i): the
\* leftmost match, every + greedy, so each group ends at the last position
\* from which the rest of the expression still matches.
parseCommitUrl(url) ==
  LET starts == {i \in 1..(Len(url) + 1) : CommitPathEnds(url, {i}) # {}}
  IN  IF starts = {} THEN NoMatch
      ELSE
        LET i0 == SetMin(starts)
            o1 == i0 + Len(L_host) + 1
            restOwner(e) ==
              MatchPlusHex(url,
                MatchLit(url,
                  MatchPlusNotSlash(url, MatchLit(url, {e}, L_slash)),
                  L_commit))
            o2 == SetMax({e \in MatchPlusNotSlash(url, {o1}) :
                            restOwner(e) # {}})
            r1 == o2 + 1
            restRepo(e) == MatchPlusHex(url, MatchLit(url, {e}, L_commit))
            r2 == SetMax({e \in MatchPlusNotSlash(url, {r1}) :
                            restRepo(e) # {}})
            h1 == r2 + Len(L_commit)
            h2 == SetMax(MatchPlusHex(url, {h1}))
        IN  [matched |-> TRUE,
             owner |-> SubSeq(url, o1, o2 - 1),
             repo |-> SubSeq(url, r1, r2 - 1),
             sha |-> SubSeq(url, h1, h2 - 1)]

\* The text scheme://host/owner/repo/seg/sha.
S_https == <<"h", "t", "t", "p", "s">>
S_githubCom == L_host
S_commit == <<"c", "o", "m", "m", "i", "t">>

BuildUrl(scheme, host, owner, repo, seg, sha) ==
  scheme \o <<":", "/", "/">> \o host \o <<"/">> \o owner \o <<"/">> \o repo
  \o <<"/">> \o seg \o <<"/">> \o sha

-----------------------------------------------------------------------------
(* JavaScript values                                                       *)

\* A string value and the value undefined.
Str(s) == [t |-> "string", v |-> s]
Undef == [t |-> "undefined", v |-> <<>>]

IsUndef(x) == x.t = "undefined"

\* Operand of || that selects the right-hand side: undefined or ''.
Falsy(x) == IsUndef(x) \/ x.v = <<>>

\* `${x}` inside a template literal.
Interp(x) ==
  IF IsUndef(x) THEN <<"u", "n", "d", "e", "f", "i", "n", "e", "d">> ELSE x.v

DigitChar(d) ==
  CASE d = 0 -> "0" [] d = 1 -> "1" [] d = 2 -> "2" [] d = 3 -> "3"
    [] d = 4 -> "4" [] d = 5 -> "5" [] d = 6 -> "6" [] d = 7 -> "7"
    [] d = 8 -> "8" [] d = 9 -> "9"

DigitVal(c) == CHOOSE d \in 0..9 : DigitChar(d) = c

\* `${n}` for a non-negative integer n.
RECURSIVE NumToStr(_)
NumToStr(n) ==
  IF n < 10 THEN <<DigitChar(n)>>
  ELSE NumToStr(n \div 10) \o <<DigitChar(n % 10)>>

-----------------------------------------------------------------------------
(* CommitData and the GitHub response                                      *)

\* private commitData: CommitData | null = null
NullData == [null |-> TRUE]

\* The JSON bodies the model lets the API answer with: the fields the code
\* reads, each present or absent.
FullResponse ==
  [sha |-> Str(<<"3", "7", "f", "4", "8", "b", "f", "f", "d", "2">>),
   html_url |-> Str(<<"h", "/", "3", "7", "f", "4">>),
   commit |-> [present |-> TRUE,
               message |-> Str(<<"F", "i", "x">>),
               author |-> [present |-> TRUE,
                           name |-> Str(<<"J", "a", "n", "e">>),
                           date |-> Str(<<"2", "0", "2", "4", "-", "0", "1",
                                          "-", "0", "5", "T", "1", "0", ":",
                                          "0", "0", ":", "0", "0", "Z">>)]],
   author |-> [present |-> TRUE,
               login |-> Str(<<"j", "d">>),
               avatar_url |-> Str(<<"a", ".", "p", "n", "g">>)],
   stats |-> [present |-> TRUE, additions |-> 12, deletions |-> 0]]

NoAccount == [present |-> FALSE, login |-> Undef, avatar_url |-> Undef]
NoStats == [present |-> FALSE, additions |-> 0, deletions |-> 0]

\* No platform account and no stats; the sha is shorter than 7 characters.
BareResponse ==
  [FullResponse EXCEPT !.author = NoAccount, !.stats = NoStats,
                       !.sha = Str(<<"a", "b", "1">>)]

NoShaResponse == [FullResponse EXCEPT !.sha = Undef]
NoMessageResponse == [FullResponse EXCEPT !.commit.message = Undef]
NoDateResponse == [BareResponse EXCEPT !.commit.author.date = Undef]
NoCommitResponse ==
  [FullResponse EXCEPT !.commit =
     [present |-> FALSE, message |-> Undef,
      author |-> [present |-> FALSE, name |-> Undef, date |-> Undef]]]
NoCommitAuthorResponse ==
  [FullResponse EXCEPT !.commit.author =
     [present |-> FALSE, name |-> Undef, date |-> Undef]]

Responses ==
  {FullResponse, BareResponse, NoShaResponse, NoMessageResponse,
   NoDateResponse, NoCommitResponse, NoCommitAuthorResponse}

\* What awaiting requestUrl(...) and reading response.json can do: the
\* request rejects (transport failure, or a status of 400 and above), the
\* body of a success status is not JSON, or the body parses to a record.
Rejects(msg) == [kind |-> "rejects", message |-> msg, json |-> FullResponse]
NotJson ==
  [kind |-> "notjson", message |-> "Unexpected token < in JSON at position 0",
   json |-> FullResponse]
Answers(r) == [kind |-> "json", message |-> "", json |-> r]

FetchOutcomes ==
  {Rejects("net::ERR_NAME_NOT_RESOLVED"), Rejects("Request failed, status 404"),
   NotJson}
  \cup {Answers(r) : r \in Responses}

NoOutcome == [kind |-> "none", message |-> "", json |-> FullResponse]

Thrown(msg) == [ok |-> FALSE, message |-> msg, data |-> NullData]
Returned(d) == [ok |-> TRUE, message |-> "", data |-> d]

\* fetchCommit from the await of requestUrl on: the record built from the
\* response, or the error thrown on the way.
fetchCommit(parsed, outcome) ==
  LET data == outcome.json IN
  IF outcome.kind # "json" THEN Thrown(outcome.message)
  ELSE IF ~data.commit.present
    THEN Thrown("Cannot read properties of undefined (reading 'message')")
  ELSE IF ~(data.author.present /\ ~Falsy(data.author.login))
          /\ ~data.commit.author.present
    THEN Thrown("Cannot read properties of undefined (reading 'name')")
  ELSE IF ~data.commit.author.present
    THEN Thrown("Cannot read properties of undefined (reading 'date')")
  ELSE Returned(
    [sha |-> data.sha,
     message |-> data.commit.message,
     author |->
       [login |-> IF data.author.present /\ ~Falsy(data.author.login)
                    THEN data.author.login
                    ELSE data.commit.author.name,
        avatarUrl |-> IF data.author.present /\ ~Falsy(data.author.avatar_url)
                        THEN data.author.avatar_url
                        ELSE Str(<<>>)],
     date |-> data.commit.author.date,
     stats |->
       [additions |-> IF data.stats.present THEN data.stats.additions ELSE 0,
        deletions |-> IF data.stats.present THEN data.stats.deletions ELSE 0],
     url |-> data.html_url,
     owner |-> Str(parsed.owner),
     repo |-> Str(parsed.repo)])

\* `https://api.github.com/repos/${owner}/${repo}/commits/${sha}` and the
\* Accept header.
ApiRequest(parsed) ==
  [url |-> <<"https://api.github.com/repos/">> \o parsed.owner \o <<"/">>
             \o parsed.repo \o <<"/commits/">> \o parsed.sha,
   accept |-> "application/vnd.github.v3+json"]

NoRequest == [url |-> <<>>, accept |-> ""]

-----------------------------------------------------------------------------
(* Rendering                                                               *)

MonthShort(m) ==
  CASE m = 1 -> "Jan" [] m = 2 -> "Feb" [] m = 3 -> "Mar" [] m = 4 -> "Apr"
    [] m = 5 -> "May" [] m = 6 -> "Jun" [] m = 7 -> "Jul" [] m = 8 -> "Aug"
    [] m = 9 -> "Sep" [] m = 10 -> "Oct" [] m = 11 -> "Nov" [] m = 12 -> "Dec"

\* A timestamp of the form YYYY-MM-DDTHH:MM:SSZ that new Date() parses.
IsIsoDate(s) ==
  /\ Len(s) = 20
  /\ \A k \in {1, 2, 3, 4, 6, 7, 9, 10, 12, 13, 15, 16, 18, 19} :
       s[k] \in Digits
  /\ s[5] = "-" /\ s[8] = "-" /\ s[11] = "T"
  /\ s[14] = ":" /\ s[17] = ":" /\ s[20] = "Z"
  /\ 10 * DigitVal(s[6]) + DigitVal(s[7]) \in 1..12
  /\ 10 * DigitVal(s[9]) + DigitVal(s[10]) \in 1..28

\* new Date(isoDate).toLocaleDateString('en-US', {year: 'numeric',
\* month: 'short', day: 'numeric'}), for a host whose time zone is UTC.
formatDate(isoDate) ==
  IF IsUndef(isoDate) \/ ~IsIsoDate(isoDate.v)
    THEN <<"Invalid Date">>
    ELSE LET s == isoDate.v IN
         <<MonthShort(10 * DigitVal(s[6]) + DigitVal(s[7])), " ">>
         \o NumToStr(10 * DigitVal(s[9]) + DigitVal(s[10]))
         \o <<",", " ">> \o SubSeq(s, 1, 4)

\* marked.parse(message, { async: false }) for a message of one plain
\* paragraph; marked throws when its input is undefined.
markedParse(message) ==
  IF IsUndef(message)
    THEN [threw |-> TRUE, html |-> <<>>]
    ELSE [threw |-> FALSE, html |-> <<"<p>">> \o message.v \o <<"</p>", "\n">>]

\* generateHtmlEmbed: the card, or the TypeError/Error thrown while the
\* template is evaluated (marked on an undefined message, substring on an
\* undefined sha).
generateHtmlEmbed(commit) ==
  LET messageHtml == markedParse(commit.message)
      avatarHtml ==
        IF ~Falsy(commit.author.avatarUrl)
          THEN <<"<img src=\"">> \o Interp(commit.author.avatarUrl)
               \o <<"\" style=\"width: 32px; height: 32px; border-radius: 50%;\" alt=\"">>
               \o Interp(commit.author.login) \o <<"\" />">>
          ELSE <<>>
  IN
  IF messageHtml.threw \/ IsUndef(commit.sha)
    THEN [threw |-> TRUE, html |-> <<>>]
    ELSE [threw |-> FALSE, html |->
      <<"<div style=\"border: 1px solid #d0d7de; border-radius: 8px; padding: 16px; margin: 8px 0; background: #ffffff; font-family: -apple-system, BlinkMacSystemFont, 'Segoe UI', Helvetica, Arial, sans-serif; color: #1f2328;\">\n",
        "  <div style=\"display: flex; align-items: center; gap: 12px; margin-bottom: 12px;\">\n    ">>
      \o avatarHtml
      \o <<"\n    <div>\n      <strong style=\"display: block; color: #1f2328;\">">>
      \o Interp(commit.author.login)
      \o <<"</strong>\n      <span style=\"font-size: 0.85em; color: #656d76;\">">>
      \o formatDate(commit.date)
      \o <<"</span>\n      <span style=\"font-size: 0.85em; color: #656d76;\"> · </span>\n",
           "      <a href=\"https://github.com/">>
      \o Interp(commit.owner) \o <<"/">> \o Interp(commit.repo)
      \o <<"\" style=\"font-size: 0.85em; color: #0969da; text-decoration: none;\">">>
      \o Interp(commit.owner) \o <<"/">> \o Interp(commit.repo)
      \o <<"</a>\n    </div>\n  </div>\n  <div style=\"margin: 12px 0; color: #1f2328;\">\n    ">>
      \o messageHtml.html
      \o <<"\n  </div>\n  <div style=\"display: flex; justify-content: space-between; align-items: center; font-size: 0.85em;\">\n",
           "    <span style=\"font-family: monospace; color: #1a7f37; font-weight: 600;\">+">>
      \o NumToStr(commit.stats.additions)
      \o <<"</span>\n    <span style=\"font-family: monospace; color: #cf222e; font-weight: 600;\">-">>
      \o NumToStr(commit.stats.deletions)
      \o <<"</span>\n    <a href=\"">> \o Interp(commit.url)
      \o <<"\" style=\"color: #0969da; text-decoration: none; font-weight: 500;\">">>
      \o Substring0(commit.sha.v, 7)
      \o <<"</a>\n  </div>\n</div>">>]

-----------------------------------------------------------------------------
(* The decision surface (CommitEmbedModal)                                 *)

LoadingView == [text |-> <<"Loading commit...">>, card |-> <<>>]

\* previewContainer.setText(`Error: ${err.message}`)
ErrorView(msg) == [text |-> <<"Error: ", msg>>, card |-> <<>>]

\* The header and message blocks buildCommitCard creates before it awaits
\* MarkdownRenderer.render.
CardHead(commit) ==
  <<[cls |-> "github-commit-header",
     text |-> (IF ~Falsy(commit.author.avatarUrl)
                 THEN Interp(commit.author.avatarUrl) ELSE <<>>)
              \o Interp(commit.author.login) \o formatDate(commit.date)
              \o <<" · ">> \o Interp(commit.owner) \o <<"/">>
              \o Interp(commit.repo)],
    [cls |-> "github-commit-message", text |-> Interp(commit.message)]>>

\* The footer block buildCommitCard appends after the await.
CardFooter(commit) ==
  [cls |-> "github-commit-footer",
   text |-> <<"+">> \o NumToStr(commit.stats.additions)
            \o <<"-">> \o NumToStr(commit.stats.deletions)
            \o Substring0(commit.sha.v, 7)]

\* new CommitEmbedModal(app, url, editor)
\* response is what the request settled with, rejected whether the promise
\* of onOpen rejected, threw whether a button handler ended in an uncaught
\* error, choice the last thing the user did to the modal.
NewModal(url) ==
  [url |-> url,
   commitData |-> NullData,
   held |-> FALSE,
   unloaded |-> FALSE,
   open |-> FALSE,
   contentEl |-> <<>>,
   preview |-> [text |-> <<>>, card |-> <<>>],
   request |-> NoRequest,
   response |-> NoOutcome,
   pc |-> "new",
   rejected |-> FALSE,
   threw |-> FALSE,
   choice |-> "none"]

\* renderButtons: the button container is appended to contentEl.
renderButtons(s) ==
  [s EXCEPT !.contentEl = Append(@, "github-commit-modal-buttons")]

\* onOpen without its catch clause: the error leaves onOpen.
onOpenCatch_Rethrows(s, msg) == [s EXCEPT !.rejected = TRUE, !.pc = "done"]

\* The catch clause of onOpen followed by renderButtons; onOpen returns.
onOpenCatch(s, msg) ==
  renderButtons([s EXCEPT !.preview = ErrorView(msg), !.pc = "done"])

\* Modal.open() and onOpen up to its first suspension: the heading and the
\* loading indicator are created, fetchCommit parses the URL and either
\* throws or sends the request and awaits it.
onOpenStart(s) ==
  LET s1 == [s EXCEPT !.open = TRUE,
                      !.contentEl = <<"h2", "commit-preview">>,
                      !.preview = LoadingView]
      parsed == parseCommitUrl(s.url)
  IN  IF ~parsed.matched
        THEN onOpenCatch(s1, "Invalid GitHub commit URL")
        ELSE [s1 EXCEPT !.request = ApiRequest(parsed), !.pc = "fetch"]

\* onOpen resumed when the request settles: fetchCommit returns or throws;
\* on success commitData is set and renderPreview runs up to the await of
\* MarkdownRenderer.render, which registers with this.component.
onOpenAfterFetch(s, outcome) ==
  LET got == fetchCommit(parseCommitUrl(s.url), outcome) IN
  IF ~got.ok
    THEN onOpenCatch([s EXCEPT !.response = outcome], got.message)
    ELSE [s EXCEPT !.response = outcome,
                   !.commitData = got.data,
                   !.preview = [text |-> <<>>, card |-> CardHead(got.data)],
                   !.held = TRUE,
                   !.pc = "render"]

\* onOpen resumed when MarkdownRenderer.render settles: buildCommitCard
\* appends the footer (commit.sha.substring throws on an undefined sha).
onOpenAfterRender(s, rendered) ==
  IF ~rendered
    THEN onOpenCatch(s, "Failed to render markdown")
  ELSE IF IsUndef(s.commitData.sha)
    THEN onOpenCatch(s,
           "Cannot read properties of undefined (reading 'substring')")
  ELSE renderButtons(
         [s EXCEPT !.preview.card = Append(@, CardFooter(s.commitData)),
                   !.pc = "done"])

\* onClose: this.component.unload(); contentEl.empty()
onClose(s) == [s EXCEPT !.held = FALSE, !.unloaded = TRUE, !.contentEl = <<>>]

\* Modal.close(): the modal leaves the screen and onClose runs.
close(s) == onClose([s EXCEPT !.open = FALSE])

\* The result of a button handler: the surface afterwards and the texts it
\* passed to editor.replaceSelection.
Handled(s, ins) == [surface |-> s, inserted |-> ins]

\* The Embed handler without its call of this.close().
embedBtnOnclick_StaysOpen(s) ==
  IF s.commitData # NullData /\ ~generateHtmlEmbed(s.commitData).threw
    THEN Handled(s, <<generateHtmlEmbed(s.commitData).html \o <<"\n", "\n">>>>)
    ELSE Handled(s, <<>>)

\* embedBtn.onclick
embedBtnOnclick(s) ==
  IF s.commitData # NullData
    THEN LET html == generateHtmlEmbed(s.commitData) IN
         IF html.threw
           THEN Handled([s EXCEPT !.threw = TRUE], <<>>)
           ELSE Handled(close(s), <<html.html \o <<"\n", "\n">>>>)
    ELSE Handled(close(s), <<>>)

\* The Paste as text handler inserting a URL rebuilt from the parsed parts.
textBtnOnclick_Rebuilt(s) ==
  LET p == parseCommitUrl(s.url) IN
  Handled(close(s),
          <<BuildUrl(S_https, S_githubCom, p.owner, p.repo, S_commit, p.sha)>>)

\* textBtn.onclick
textBtnOnclick(s) == Handled(close(s), <<s.url>>)

\* The Cancel handler inserting the URL as the Paste as text handler does.
cancelBtnOnclick_Inserts(s) == Handled(close(s), <<s.url>>)

\* cancelBtn.onclick
cancelBtnOnclick(s) == Handled(close(s), <<>>)

\* A button can be pressed while the modal is on screen and the button is
\* in its content element.
ButtonsShown(s) ==
  /\ s.open
  /\ \E k \in 1..Len(s.contentEl) :
       s.contentEl[k] = "github-commit-modal-buttons"

-----------------------------------------------------------------------------
(* Clipboard contents                                                      *)

\* evt.clipboardData?.getData('text/plain') yields no string.
NoText == [has |-> FALSE, data |-> <<>>]
Text(d) == [has |-> TRUE, data |-> d]

BaseSha == <<"a", "b", "1">>

BaseUrl == BuildUrl(S_https, S_githubCom, <<"o">>, <<"r">>, S_commit, BaseSha)

\* The base URL with one of its parts changed.
UrlVariants ==
  {BuildUrl(sc, S_githubCom, <<"o">>, <<"r">>, S_commit, BaseSha) :
     sc \in {L_http, <<"H", "T", "T", "P", "S">>, <<"f", "t", "p">>,
             <<"h", "t", "t", "p", "s", "s">>}}
  \cup {BuildUrl(S_https, h, <<"o">>, <<"r">>, S_commit, BaseSha) :
          h \in {<<"G", "i", "t", "H", "u", "b", ".", "C", "O", "M">>,
                 <<"g", "i", "t", "h", "u", "b", "x", "c", "o", "m">>,
                 <<"a", "p", "i", ".">> \o S_githubCom}}
  \cup {BuildUrl(S_https, S_githubCom, o, <<"r">>, S_commit, BaseSha) :
          o \in {<<>>, <<"o", " ", "?", "#">>, <<"o", "/", "p">>}}
  \cup {BuildUrl(S_https, S_githubCom, <<"o">>, <<"r">>, sg, BaseSha) :
          sg \in {<<"C", "O", "M", "M", "I", "T">>,
                  <<"c", "o", "m", "m", "i", "t", "s">>,
                  <<"p", "u", "l", "l">>}}
  \cup {BuildUrl(S_https, S_githubCom, <<"o">>, <<"r">>, S_commit, sh) :
          sh \in {<<"A", "B", "1">>, <<"a", "b", "g">>, <<>>,
                  <<"a", "b", "1", "/", "x">>, <<"a", "b", "1", "?", "d">>,
                  <<"a", "b", "1", "#", "L", "1">>}}

\* The clipboard contents tried against the paste gate.
GateClips ==
  {NoText, Text(<<>>), Text(<<" ">>), Text(BaseUrl),
   Text(<<"x">> \o BaseUrl), Text(<<" ", "\n">> \o BaseUrl \o <<"\n">>),
   Text(BaseUrl \o <<" ", "x">>), Text(BaseUrl \o <<"\n", "x">>)}
  \cup {Text(u) : u \in UrlVariants}

\* The clipboard contents pasted while surfaces are followed to their end.
Clips ==
  {Text(BaseUrl),
   Text(<<" ">> \o BuildUrl(L_http, S_githubCom, <<"O">>, <<"r">>, S_commit,
                            <<"A", "B", "1">>) \o <<"\n">>),
   Text(BaseUrl \o <<"/", "x">>)}

-----------------------------------------------------------------------------
(* State and actions                                                       *)

NoPaste == [pasted |-> FALSE, clip |-> NoText, defaultPrevented |-> FALSE,
            opened |-> 0]

Init ==
  /\ surfaces = <<>>
  /\ editor = <<>>
  /\ lastPaste = NoPaste

\* editor.replaceSelection(text) for each text a handler of surface i passed.
Replaced(i, ins) == editor \o [k \in 1..Len(ins) |-> [by |-> i, text |-> ins[k]]]

\* The editor-paste handler registered by onload.
OnEditorPaste(clip) ==
  LET text == Trim(clip.data) IN
  IF clip.has /\ text # <<>> /\ isGitHubCommitUrl(text)
    THEN /\ Len(surfaces) < MaxSurfaces
         /\ surfaces' = Append(surfaces, onOpenStart(NewModal(text)))
         /\ lastPaste' = [pasted |-> TRUE, clip |-> clip,
                          defaultPrevented |-> TRUE,
                          opened |-> Len(surfaces) + 1]
         /\ UNCHANGED editor
    ELSE /\ lastPaste' = [pasted |-> TRUE, clip |-> clip,
                          defaultPrevented |-> FALSE, opened |-> 0]
         /\ UNCHANGED <<surfaces, editor>>

Paste == \E clip \in Clips : OnEditorPaste(clip)

GatePaste == \E clip \in GateClips : OnEditorPaste(clip)

\* The request of surface i settles.
FetchSettles ==
  \E i \in 1..Len(surfaces), outcome \in FetchOutcomes :
    /\ surfaces[i].pc = "fetch"
    /\ surfaces' = [surfaces EXCEPT ![i] = onOpenAfterFetch(@, outcome)]
    /\ UNCHANGED <<editor, lastPaste>>

\* MarkdownRenderer.render of surface i settles.
RenderSettles ==
  \E i \in 1..Len(surfaces), rendered \in BOOLEAN :
    /\ surfaces[i].pc = "render"
    /\ surfaces' = [surfaces EXCEPT ![i] = onOpenAfterRender(@, rendered)]
    /\ UNCHANGED <<editor, lastPaste>>

Press(i, h, button) ==
  /\ surfaces' = [surfaces EXCEPT ![i] = [h.surface EXCEPT !.choice = button]]
  /\ editor' = Replaced(i, h.inserted)
  /\ UNCHANGED lastPaste

ClickEmbed ==
  \E i \in 1..Len(surfaces) :
    ButtonsShown(surfaces[i]) /\ Press(i, embedBtnOnclick(surfaces[i]), "embed")

ClickText ==
  \E i \in 1..Len(surfaces) :
    ButtonsShown(surfaces[i]) /\ Press(i, textBtnOnclick(surfaces[i]), "text")

ClickCancel ==
  \E i \in 1..Len(surfaces) :
    ButtonsShown(surfaces[i]) /\ Press(i, cancelBtnOnclick(surfaces[i]), "cancel")

\* The user dismisses the modal (Escape, the close icon, a click outside).
Dismiss ==
  \E i \in 1..Len(surfaces) :
    /\ surfaces[i].open
    /\ surfaces' = [surfaces EXCEPT ![i] = [close(@) EXCEPT !.choice = "dismiss"]]
    /\ UNCHANGED <<editor, lastPaste>>

Next ==
  \/ Paste
  \/ FetchSettles
  \/ RenderSettles
  \/ ClickEmbed
  \/ ClickText
  \/ ClickCancel
  \/ Dismiss

Spec == Init /\ [][Next]_vars

\* The paste gate alone, over the whole set of clipboard contents.
GateSpec == Init /\ [][GatePaste]_vars

-----------------------------------------------------------------------------
(* Properties                                                              *)

\* The texts surface i passed to editor.replaceSelection, in order.
InsertedBy(i) ==
  LET mine == SelectSeq(editor, LAMBDA e : e.by = i)
  IN  [k \in 1..Len(mine) |-> mine[k].text]

RECURSIVE SplitSlash(_)
\* s split at every "/".
SplitSlash(s) ==
  IF \A k \in 1..Len(s) : s[k] # "/" THEN <<s>>
  ELSE LET k == SetMin({j \in 1..Len(s) : s[j] = "/"})
       IN  <<SubSeq(s, 1, k - 1)>> \o SplitSlash(SubSeq(s, k + 1, Len(s)))

EqualIgnoringCase(a, b) ==
  Len(a) = Len(b) /\ \A k \in 1..Len(a) : Lower(a[k]) = Lower(b[k])

\* ^https?://github\.com/([^/]+)/([^/]+)/commit/([a-f0-9]+)$ read part by
\* part: scheme and host compared without regard to case, and the word
\* commit and the digits of the sha too when wholly is TRUE.
CommitUrlPattern(s, wholly) ==
  LET parts == SplitSlash(s) IN
  /\ Len(parts) = 7
  /\ \/ EqualIgnoringCase(parts[1], L_http \o <<":">>)
     \/ EqualIgnoringCase(parts[1], S_https \o <<":">>)
  /\ parts[2] = <<>>
  /\ EqualIgnoringCase(parts[3], S_githubCom)
  /\ parts[4] # <<>>
  /\ parts[5] # <<>>
  /\ IF wholly THEN EqualIgnoringCase(parts[6], S_commit)
               ELSE parts[6] = S_commit
  /\ parts[7] # <<>>
  /\ \A k \in 1..Len(parts[7]) :
       IF wholly THEN Lower(parts[7][k]) \in HexChars
                 ELSE parts[7][k] \in HexChars

\* A paste whose trimmed text is outside the pattern is left to the editor,
\* and every surface, and so every request, belongs to a text inside it.
GateKeeps(wholly) ==
  /\ (lastPaste.pasted /\ ~CommitUrlPattern(Trim(lastPaste.clip.data), wholly))
       => (~lastPaste.defaultPrevented /\ lastPaste.opened = 0)
  /\ \A i \in 1..Len(surfaces) : CommitUrlPattern(surfaces[i].url, wholly)

\* C1 as stated: a pasted text whose trimmed value does not match the
\* pattern, case-insensitive on scheme and host only, is not intercepted: the
\* default paste is not suppressed, no surface opens, no fetch is attempted.
C1_GateStrictPattern == GateKeeps(FALSE)

\* C1 amended: the same for a pasted text whose trimmed value does not match
\* the pattern compared case-insensitively as a whole.
C1_GateWholePattern == GateKeeps(TRUE)

\* A text in which a commit URL occurs but which is not one was pasted and
\* left to the editor.
C1_Witness ==
  /\ lastPaste.pasted /\ lastPaste.clip.has
  /\ parseCommitUrl(Trim(lastPaste.clip.data)).matched
  /\ ~CommitUrlPattern(Trim(lastPaste.clip.data), TRUE)
  /\ ~lastPaste.defaultPrevented

\* C2: Embed inserts the card followed by two newlines when CommitData was
\* obtained, inserts nothing when it never was, and closes the surface in
\* both cases.
C2_EmbedInsertsCardAndCloses ==
  \A i \in 1..Len(surfaces) :
    surfaces[i].choice = "embed" =>
      /\ ~surfaces[i].open
      /\ IF surfaces[i].commitData # NullData
           THEN /\ ~generateHtmlEmbed(surfaces[i].commitData).threw
                /\ InsertedBy(i) =
                     <<generateHtmlEmbed(surfaces[i].commitData).html
                       \o <<"\n", "\n">>>>
           ELSE InsertedBy(i) = <<>>

\* C3: Paste as text inserts exactly the URL the surface was opened with,
\* the trimmed clipboard text, and closes the surface.
C3_TextInsertsUrlAndCloses ==
  \A i \in 1..Len(surfaces) :
    surfaces[i].choice = "text" =>
      /\ ~surfaces[i].open
      /\ InsertedBy(i) = <<surfaces[i].url>>
      /\ lastPaste.opened = i =>
           InsertedBy(i) = <<Trim(lastPaste.clip.data)>>

\* Paste as text was chosen on a surface whose fetch had failed and whose
\* URL is not in canonical lower case.
C3_Witness ==
  \E i \in 1..Len(surfaces) :
    /\ surfaces[i].choice = "text"
    /\ surfaces[i].commitData = NullData
    /\ surfaces[i].url # BaseUrl
    /\ lastPaste.opened = i

\* C4: Cancel and every other dismissal, in any state of the surface, insert
\* nothing and close the surface.
C4_CancelLeavesEditor ==
  \A i \in 1..Len(surfaces) :
    surfaces[i].choice \in {"cancel", "dismiss"} =>
      ~surfaces[i].open /\ InsertedBy(i) = <<>>

\* The modal was dismissed while the request was in flight, the request
\* then settled with a commit, and the editor is still as it was.
C4_Witness ==
  \E i \in 1..Len(surfaces) :
    /\ surfaces[i].choice = "dismiss"
    /\ surfaces[i].pc = "done"
    /\ surfaces[i].commitData # NullData
    /\ surfaces[i].contentEl = <<"github-commit-modal-buttons">>
    /\ editor = <<>>

\* The request settled without a usable body: it rejected, the body was not
\* JSON, or the commit or commit.author object was missing.
FetchFailed(s) ==
  \/ s.response.kind \in {"rejects", "notjson"}
  \/ /\ s.response.kind = "json"
     /\ \/ ~s.response.json.commit.present
        \/ ~s.response.json.commit.author.present

\* C5: when the fetch stage fails, onOpen catches the error: the preview
\* shows "Error: " and the error's message in place of the loading
\* indicator, no card and no CommitData exist, and onOpen does not reject.
C5_FetchErrorShown ==
  \A i \in 1..Len(surfaces) :
    FetchFailed(surfaces[i]) =>
      /\ surfaces[i].preview.card = <<>>
      /\ Len(surfaces[i].preview.text) = 2
      /\ surfaces[i].preview.text[1] = "Error: "
      /\ surfaces[i].response.kind = "rejects" =>
           surfaces[i].preview.text[2] = surfaces[i].response.message
      /\ surfaces[i].commitData = NullData
      /\ ~surfaces[i].rejected
      /\ surfaces[i].pc = "done"

\* The API answered 404 for a surface still on screen.
C5_Witness ==
  \E i \in 1..Len(surfaces) :
    /\ surfaces[i].open
    /\ surfaces[i].response = Rejects("Request failed, status 404")
    /\ surfaces[i].preview = ErrorView("Request failed, status 404")

\* C6: a surface on screen always shows the three buttons, also while the
\* fetch is in flight.
C6_ButtonsWhileOpen ==
  \A i \in 1..Len(surfaces) : surfaces[i].open => ButtonsShown(surfaces[i])

\* C7: once onClose has run, the content element and the preview region of
\* the surface are never changed again.
C7_ClosedSurfaceUntouched ==
  [][\A i \in 1..Len(surfaces) :
       (~surfaces[i].open /\ surfaces[i].unloaded) =>
         /\ surfaces'[i].contentEl = surfaces[i].contentEl
         /\ surfaces'[i].preview = surfaces[i].preview]_vars

\* C8: a closed surface holds no rendering context: none is left held when
\* the surface closes and none is acquired after the release.
C8_ContextReleased ==
  \A i \in 1..Len(surfaces) :
    (~surfaces[i].open /\ surfaces[i].unloaded) => ~surfaces[i].held

\* C9: a surface mutates the editor at most once, and what it inserts is the
\* card followed by two newlines, the URL, or nothing, according to the
\* choice made.
C9_AtMostOneInsertion ==
  \A i \in 1..Len(surfaces) :
    /\ Len(InsertedBy(i)) <= 1
    /\ InsertedBy(i) # <<>> =>
         /\ ~surfaces[i].open
         /\ \/ /\ surfaces[i].choice = "text"
               /\ InsertedBy(i)[1] = surfaces[i].url
            \/ /\ surfaces[i].choice = "embed"
               /\ surfaces[i].commitData # NullData
               /\ InsertedBy(i)[1] =
                    generateHtmlEmbed(surfaces[i].commitData).html
                    \o <<"\n", "\n">>

\* A surface that inserted the card and closed, next to nothing else in the
\* editor.
C9_Witness ==
  \E i \in 1..Len(surfaces) :
    /\ surfaces[i].choice = "embed"
    /\ ~surfaces[i].open
    /\ Len(InsertedBy(i)) = 1
    /\ Len(editor) = 1

\* C10: a CommitData held by a surface has every field defined, the
\* required sha, message and date among them.
C10_CommitDataPopulated ==
  \A i \in 1..Len(surfaces) :
    surfaces[i].commitData # NullData =>
      /\ ~IsUndef(surfaces[i].commitData.sha)
      /\ ~IsUndef(surfaces[i].commitData.message)
      /\ ~IsUndef(surfaces[i].commitData.date)
      /\ ~IsUndef(surfaces[i].commitData.url)
      /\ ~IsUndef(surfaces[i].commitData.author.login)

====
